---- MODULE Spec2Model ----
(***************************************************************************)
(* Model of address_validate.py: the request builder                       *)
(* (build_validation_request), the validation client                       *)
(* (validate_address_google), the classifier (parse_validation_result) and *)
(* the batch driver (process_addresses).                                   *)
(*                                                                         *)
(* Python values are records [k, v] of two strings: k is the Python type   *)
(* ("none", "bool", "str", "list", "int"; "absent" marks a key that is not *)
(* in its dict) and v is the value's text (str(x) for scalars, repr for    *)
(* lists).  JSON objects are records [k, f]: k is the type of the value    *)
(* found at that place ("dict" when it is an object) and f its keys.       *)
(* The source's em dash in the inferred-components note is written "--".   *)
(***************************************************************************)
EXTENDS Integers, Sequences, FiniteSets, TLC

VARIABLES pc, result, original_address, region_code, enable_usps_cass, ret,
          geocode_result, original_input, request,
          df, enable_cass, results, responses

vars == <<pc, result, original_address, region_code, enable_usps_cass, ret,
          geocode_result, original_input, request,
          df, enable_cass, results, responses>>

parseVars == <<result, original_address, region_code, enable_usps_cass, ret>>
buildVars == <<geocode_result, original_input, request>>
batchVars == <<df, enable_cass, results, responses>>

----------------------------------------------------------------------------
(* Python values *)

Absent == [k |-> "absent", v |-> ""]
None_ == [k |-> "none", v |-> "None"]
True_ == [k |-> "bool", v |-> "True"]
False_ == [k |-> "bool", v |-> "False"]
Str(s) == [k |-> "str", v |-> s]
List(r) == [k |-> "list", v |-> r]
PyBool(b) == IF b THEN True_ ELSE False_

\* dict.get(key, default) on a key whose stored value is x
Get(x, default) == IF x = Absent THEN default ELSE x

\* bool(x)
Truthy(x) ==
    CASE x.k = "bool" -> x.v = "True"
      [] x.k = "str" -> x.v # ""
      [] x.k = "list" -> x.v # "[]"
      [] x.k = "int" -> x.v # "0"
      [] OTHER -> FALSE

\* a and b: the first falsy operand, else the last one
PyAnd(a, b) == IF Truthy(a) THEN b ELSE a

\* not a
PyNot(a) == PyBool(~Truthy(a))

\* type(x).__name__
TypeName(k) ==
    CASE k = "none" -> "NoneType"
      [] k = "bool" -> "bool"
      [] OTHER -> k

\* sub in s, for two strings
Contains(sub, s) ==
    \E i \in 1..(Len(s) - Len(sub) + 1) : SubSeq(s, i, i + Len(sub) - 1) = sub

StartsWith(s, prefix) ==
    Len(s) >= Len(prefix) /\ SubSeq(s, 1, Len(prefix)) = prefix

----------------------------------------------------------------------------
(* The shape of a validation response *)

NoVerdict ==
    [validationGranularity |-> Absent, addressComplete |-> Absent,
     hasInferredComponents |-> Absent, hasReplacedComponents |-> Absent,
     unconfirmedComponentTypes |-> Absent, missingComponentTypes |-> Absent,
     unresolvedTokens |-> Absent]
NoAddress == [formattedAddress |-> Absent]
NoLocation == [lat |-> Absent, lng |-> Absent]
NoGeocode == [location |-> [k |-> "absent", f |-> NoLocation]]
NoUsps ==
    [dpvConfirmation |-> Absent, dpvVacant |-> Absent, dpvNoStat |-> Absent,
     dpvCmra |-> Absent, undeliverable |-> Absent]
NoMetadata == [poBox |-> Absent]
NoValidationResult ==
    [verdict |-> [k |-> "absent", f |-> NoVerdict],
     address |-> [k |-> "absent", f |-> NoAddress],
     geocode |-> [k |-> "absent", f |-> NoGeocode],
     uspsData |-> [k |-> "absent", f |-> NoUsps],
     metadata |-> [k |-> "absent", f |-> NoMetadata]]

\* o.get(key, {}) where the value stored under key is the object x
GetObj(x, empty) == IF x.k = "absent" THEN [k |-> "dict", f |-> empty] ELSE x

\* A value at the top level that is not an object: null, a number, a list
\* (items) or a string (v).
NonDict(kind, text, items) ==
    [k |-> kind, v |-> text, items |-> items, error |-> Absent,
     result |-> [k |-> "absent", f |-> NoValidationResult]]

Dict(error, validation_result) ==
    [k |-> "dict", v |-> "", items |-> <<>>, error |-> error,
     result |-> validation_result]

----------------------------------------------------------------------------
(* parse_validation_result *)

NoRecord ==
    [original_address |-> Absent, validated_address |-> Absent,
     is_valid |-> Absent, validation_status |-> Absent,
     is_po_box |-> Absent, is_dpv_confirmed |-> Absent,
     is_confirmed |-> Absent, is_vacant |-> Absent, is_no_stat |-> Absent,
     is_cmra |-> Absent, is_undeliverable |-> Absent,
     dpv_confirmation_description |-> Absent,
     lat |-> Absent, lng |-> Absent, usps_data |-> Absent]

Return(rec) == [outcome |-> "return", exc |-> "", rec |-> rec]
Raise(exc) == [outcome |-> "raise", exc |-> exc, rec |-> NoRecord]
NotCalled == [outcome |-> "none", exc |-> "", rec |-> NoRecord]

InResult_Truthy(r) ==
    CASE r.k = "dict" -> Truthy(r.error)
      [] r.k = "list" -> \E i \in 1..Len(r.items) : r.items[i] = "error"
      [] r.k = "str" -> Contains("error", r.v)
      [] OTHER -> FALSE

\* "error" in result
InResult(r) ==
    CASE r.k = "dict" -> r.error # Absent
      [] r.k = "list" -> \E i \in 1..Len(r.items) : r.items[i] = "error"
      [] r.k = "str" -> Contains("error", r.v)
      [] OTHER -> FALSE

ApiErrorRecord_Unclassified(r, address) ==
    [NoRecord EXCEPT
        !.original_address = Str(address),
        !.validated_address = Str(address),
        !.is_valid = None_,
        !.validation_status = Str("API Error: " \o r.error.v),
        !.lat = None_, !.lng = None_, !.usps_data = None_]

ApiErrorRecord(r, address) ==
    [NoRecord EXCEPT
        !.original_address = Str(address),
        !.validated_address = Str(address),
        !.is_valid = False_,
        !.validation_status = Str("API Error: " \o r.error.v),
        !.lat = None_, !.lng = None_, !.usps_data = None_]

ParseErrorRecord(address, e) ==
    [NoRecord EXCEPT
        !.original_address = Str(address),
        !.validated_address = Str(address),
        !.is_valid = False_,
        !.validation_status = Str("Parse Error: " \o e),
        !.lat = None_, !.lng = None_, !.usps_data = None_]

NoAttributeGet(k) == "'" \o TypeName(k) \o "' object has no attribute 'get'"
Unhashable(k) == "unhashable type: '" \o TypeName(k) \o "'"

_map_dpv_confirmation(code) ==
    CASE code = Str("Y") -> "Address confirmed (Primary and secondary if present)."
      [] code = Str("N") -> "Address not confirmed (No primary or secondary match)."
      [] code = Str("D") -> "Primary confirmed, but secondary information is missing."
      [] code = Str("S") -> "Primary confirmed, secondary information exists but was not provided in the input."
      [] code = Str("C") -> "Address confirmed, but it is a Commercial Mail Receiving Agency (CMRA)."
      [] code = Str("B") -> "Primary confirmed, but it is a PO Box or equivalent."
      [] OTHER -> "Unknown DPV Confirmation Code"

GranularityStatus(validation_granularity) ==
    CASE validation_granularity = Str("SUB_PREMISE") ->
            "Highly Mailable Address (Validated to sub-unit)"
      [] validation_granularity = Str("PREMISE") ->
            "Standard Mailable Address (Validated to building)"
      [] validation_granularity = Str("STREET") ->
            "Partial Address (Street-level only, may not be reliably mailable)"
      [] validation_granularity = Str("LOCALITY") ->
            "Non-Mailable Address (Only city-level validated)"
      [] validation_granularity = Str("REGION") ->
            "Non-Mailable Address (Only region/state validated)"
      [] validation_granularity = Str("COUNTRY") ->
            "Non-Mailable Address (Only country validated)"
      [] validation_granularity = Str("OTHER") ->
            "Non-Mailable Address (Unknown or unvalidated)"
      [] OTHER -> "Non-Mailable Address (Unknown validation granularity)"

GranularityValid(validation_granularity) ==
    validation_granularity \in {Str("SUB_PREMISE"), Str("PREMISE"), Str("STREET")}

InferredNote == " -- Note: Some components were inferred."

NoteApplies_AnyGranularity(has_inferred, validation_granularity) ==
    Truthy(has_inferred)

NoteApplies(has_inferred, validation_granularity) ==
    /\ Truthy(has_inferred)
    /\ validation_granularity \in {Str("SUB_PREMISE"), Str("PREMISE"), Str("STREET")}

Status(has_inferred, validation_granularity) ==
    IF NoteApplies(has_inferred, validation_granularity)
    THEN GranularityStatus(validation_granularity) \o InferredNote
    ELSE GranularityStatus(validation_granularity)

FormattedAddress(address_obj, address) ==
    Get(address_obj.f.formattedAddress, Str(address))

IsPoBox_AnyRegion(metadata, region) ==
    Get(metadata.f.poBox, False_)

IsPoBox(metadata, region) ==
    IF region = "US" THEN Get(metadata.f.poBox, False_) ELSE False_

IsDpvConfirmed(usps_data, region) ==
    IF region = "US"
    THEN PyBool(Get(usps_data.f.dpvConfirmation, None_) = Str("Y"))
    ELSE False_

\* the chain of "and" of lines 193-201
QualityConfirmed(verdict) ==
    PyAnd(PyBool(Get(verdict.f.validationGranularity, None_)
                    \in {Str("PREMISE"), Str("SUB_PREMISE")}),
    PyAnd(Get(verdict.f.addressComplete, None_),
    PyAnd(PyNot(Get(verdict.f.hasInferredComponents, None_)),
    PyAnd(PyNot(Get(verdict.f.hasReplacedComponents, None_)),
    PyAnd(PyNot(Get(verdict.f.unconfirmedComponentTypes, None_)),
    PyAnd(PyNot(Get(verdict.f.missingComponentTypes, None_)),
          PyNot(Get(verdict.f.unresolvedTokens, None_))))))))

IsConfirmed(verdict, usps_data, region, cass) ==
    IF region = "US" /\ cass
    THEN PyAnd(QualityConfirmed(verdict),
               PyBool(Get(usps_data.f.dpvConfirmation, None_) = Str("Y")))
    ELSE QualityConfirmed(verdict)

\* The first exception the try block raises on this response ("" if none),
\* in the order in which the block reads the response.
TryFailure(r, region) ==
    LET validation_result == GetObj(r.result, NoValidationResult)
        verdict == GetObj(validation_result.f.verdict, NoVerdict)
        address_obj == GetObj(validation_result.f.address, NoAddress)
        geocode == GetObj(validation_result.f.geocode, NoGeocode)
        location == GetObj(geocode.f.location, NoLocation)
        usps_data == GetObj(validation_result.f.uspsData, NoUsps)
        metadata == GetObj(validation_result.f.metadata, NoMetadata)
        validation_granularity ==
            Get(verdict.f.validationGranularity, Str("UNKNOWN"))
        has_inferred == Get(verdict.f.hasInferredComponents, False_)
    IN  CASE r.k # "dict" -> NoAttributeGet(r.k)
          [] r.k = "dict" /\ validation_result.k # "dict" ->
                NoAttributeGet(validation_result.k)
          [] OTHER ->
             CASE verdict.k # "dict" -> NoAttributeGet(verdict.k)
               [] verdict.k = "dict" /\ Truthy(has_inferred)
                    /\ validation_granularity.k = "list" ->
                     Unhashable(validation_granularity.k)
               [] OTHER ->
                  IF address_obj.k # "dict" THEN NoAttributeGet(address_obj.k)
                  ELSE IF geocode.k # "dict" THEN NoAttributeGet(geocode.k)
                  ELSE IF location.k # "dict" THEN NoAttributeGet(location.k)
                  ELSE IF region = "US" /\ metadata.k # "dict"
                       THEN NoAttributeGet(metadata.k)
                  ELSE IF usps_data.k # "dict" THEN NoAttributeGet(usps_data.k)
                  ELSE IF Get(usps_data.f.dpvConfirmation, Str("N/A")).k = "list"
                       THEN Unhashable("list")
                  ELSE ""

MainRecord(r, address, region, cass) ==
    LET validation_result == GetObj(r.result, NoValidationResult)
        verdict == GetObj(validation_result.f.verdict, NoVerdict)
        address_obj == GetObj(validation_result.f.address, NoAddress)
        usps_data == GetObj(validation_result.f.uspsData, NoUsps)
        metadata == GetObj(validation_result.f.metadata, NoMetadata)
        validation_granularity ==
            Get(verdict.f.validationGranularity, Str("UNKNOWN"))
        has_inferred == Get(verdict.f.hasInferredComponents, False_)
        dpv_confirmation == Get(usps_data.f.dpvConfirmation, Str("N/A"))
    IN  [NoRecord EXCEPT
            !.original_address = Str(address),
            !.validated_address = FormattedAddress(address_obj, address),
            !.is_valid = PyBool(GranularityValid(validation_granularity)),
            !.validation_status =
                Str(Status(has_inferred, validation_granularity)),
            !.is_po_box = IsPoBox(metadata, region),
            !.is_dpv_confirmed = IsDpvConfirmed(usps_data, region),
            !.is_confirmed = IsConfirmed(verdict, usps_data, region, cass),
            !.is_vacant = Get(usps_data.f.dpvVacant, False_),
            !.is_no_stat = Get(usps_data.f.dpvNoStat, False_),
            !.is_cmra = Get(usps_data.f.dpvCmra, False_),
            !.is_undeliverable = Get(usps_data.f.undeliverable, False_),
            !.dpv_confirmation_description =
                Str(_map_dpv_confirmation(dpv_confirmation))]

\* result['error'] on a list or a string
IndicesMessage(k) ==
    IF k = "list" THEN "list indices must be integers or slices, not str"
    ELSE "string indices must be integers, not 'str'"

parse_validation_result(r, address, region, cass) ==
    IF r.k \in {"none", "int", "bool"}
    THEN Raise("TypeError: argument of type '" \o TypeName(r.k)
                    \o "' is not iterable")
    ELSE IF InResult(r)
    THEN IF r.k = "dict"
         THEN Return(ApiErrorRecord(r, address))
         ELSE Raise("TypeError: " \o IndicesMessage(r.k))
    ELSE IF TryFailure(r, region) # ""
    THEN Return(ParseErrorRecord(address, TryFailure(r, region)))
    ELSE Return(MainRecord(r, address, region, cass))

----------------------------------------------------------------------------
(* build_validation_request *)

PoiTypes == {"point_of_interest", "establishment", "university"}

IsPoi(comp) == comp.types \cap PoiTypes # {}

InSeq(x, seq) == \E i \in 1..Len(seq) : seq[i] = x

\* poi_names after the loop over address_components
RECURSIVE PoiNames(_)
PoiNames(comps) ==
    IF comps = <<>> THEN <<>>
    ELSE LET before == PoiNames(SubSeq(comps, 1, Len(comps) - 1))
             comp == comps[Len(comps)]
         IN  IF IsPoi(comp) /\ ~InSeq(comp.long_name, before)
             THEN Append(before, comp.long_name)
             ELSE before

NoComponents ==
    [locality |-> Absent, administrativeArea |-> Absent,
     regionCode |-> Absent, postalCode |-> Absent]

\* components after the loop over address_components
RECURSIVE Components(_)
Components(comps) ==
    IF comps = <<>> THEN NoComponents
    ELSE LET before == Components(SubSeq(comps, 1, Len(comps) - 1))
             comp == comps[Len(comps)]
         IN  CASE IsPoi(comp) -> before
               [] ~IsPoi(comp) /\ "locality" \in comp.types ->
                    [before EXCEPT !.locality = Str(comp.long_name)]
               [] OTHER ->
                  IF "administrative_area_level_1" \in comp.types
                  THEN [before EXCEPT !.administrativeArea = Str(comp.short_name)]
                  ELSE IF "country" \in comp.types
                  THEN [before EXCEPT !.regionCode = Str(comp.short_name)]
                  ELSE IF "postal_code" \in comp.types
                  THEN [before EXCEPT !.postalCode = Str(comp.long_name)]
                  ELSE before

WithOriginal_Appended(lines, original) ==
    IF InSeq(original, lines) THEN lines ELSE Append(lines, original)

\* lines 57-58: the original input goes to the front
WithOriginal(lines, original) ==
    IF InSeq(original, lines) THEN lines ELSE <<original>> \o lines

\* lines 61-62: the formatted address goes last
WithFormatted(lines, formatted_address) ==
    IF InSeq(formatted_address, lines) THEN lines
    ELSE Append(lines, formatted_address)

AddressLines(geocode, original) ==
    WithFormatted(WithOriginal(PoiNames(geocode.address_components), original),
                  Get(geocode.formatted_address, Str("")).v)

build_validation_request(geocode, original) ==
    LET components == Components(geocode.address_components)
    IN  [locality |-> components.locality,
         administrativeArea |-> components.administrativeArea,
         regionCode |-> Get(components.regionCode, Str("US")),
         postalCode |-> components.postalCode,
         addressLines |-> AddressLines(geocode, original)]

NoRequest ==
    [locality |-> Absent, administrativeArea |-> Absent, regionCode |-> Absent,
     postalCode |-> Absent, addressLines |-> <<>>]

----------------------------------------------------------------------------
(* Responses and arguments the classifier is applied to *)

Flags == {Absent, True_, False_}
TokenLists == {Absent, List("[]"), List("['route']")}

Granularities ==
    {Absent, None_, List("['PREMISE']"), Str("BLOCK"), Str("UNKNOWN"),
     Str("SUB_PREMISE"), Str("PREMISE"), Str("STREET"), Str("LOCALITY"),
     Str("REGION"), Str("COUNTRY"), Str("OTHER")}

DpvCodes == {Absent, Str("Y"), Str("N")}

WrongShapes(empty) == {[k |-> kk, f |-> empty] : kk \in {"absent", "none", "list"}}

ShapeVerdicts ==
    {[k |-> "dict",
      f |-> [NoVerdict EXCEPT !.validationGranularity = g,
                              !.addressComplete = True_,
                              !.hasInferredComponents = hi]] :
        g \in Granularities, hi \in Flags}
    \cup WrongShapes(NoVerdict)

FullVerdicts ==
    {[k |-> "dict",
      f |-> [validationGranularity |-> g, addressComplete |-> ac,
             hasInferredComponents |-> hi, hasReplacedComponents |-> hr,
             unconfirmedComponentTypes |-> uc, missingComponentTypes |-> mc,
             unresolvedTokens |-> ut]] :
        g \in {Absent, None_, Str("PREMISE"), Str("SUB_PREMISE"), Str("STREET")},
        ac \in Flags \cup {None_}, hi \in Flags, hr \in Flags,
        uc \in TokenLists, mc \in TokenLists, ut \in TokenLists}

Addresses ==
    {[k |-> "dict", f |-> [formattedAddress |-> a]] :
        a \in {Absent, None_, Str(""),
               Str("Massachusetts Hall, Cambridge, MA 02138, USA")}}
    \cup {[k |-> kk, f |-> NoAddress] : kk \in {"absent", "list"}}

Geocodes ==
    {[k |-> "dict", f |-> [location |-> l]] :
        l \in {[k |-> "list", f |-> NoLocation],
               [k |-> "dict", f |-> [lat |-> [k |-> "float", v |-> "42.37"],
                                     lng |-> [k |-> "float", v |-> "-71.11"]]]}}
    \cup {[k |-> kk, f |-> NoGeocode] : kk \in {"absent", "list"}}

UspsDatas ==
    {[k |-> "dict", f |-> [NoUsps EXCEPT !.dpvConfirmation = c]] : c \in DpvCodes}
    \cup {[k |-> "dict",
           f |-> [dpvConfirmation |-> Str("Y"), dpvVacant |-> True_,
                  dpvNoStat |-> True_, dpvCmra |-> True_,
                  undeliverable |-> True_]]}
    \cup {[k |-> kk, f |-> NoUsps] : kk \in {"absent", "list"}}

Metadatas ==
    {[k |-> "dict", f |-> [poBox |-> b]] : b \in Flags}
    \cup {[k |-> kk, f |-> NoMetadata] : kk \in {"absent", "list"}}

ValidationResults(verdicts, addresses, geocodes, usps, metadatas) ==
    {[k |-> "dict",
      f |-> [verdict |-> vd, address |-> ad, geocode |-> gc, uspsData |-> us,
             metadata |-> md]] :
        vd \in verdicts, ad \in addresses, gc \in geocodes, us \in usps,
        md \in metadatas}
    \cup WrongShapes(NoValidationResult)

\* Values the validation service can send that are not a JSON object
NonDicts ==
    {NonDict("none", "None", <<>>), NonDict("int", "7", <<>>),
     NonDict("list", "[]", <<>>), NonDict("list", "['error']", <<"error">>),
     NonDict("str", "oops", <<>>), NonDict("str", "upstream error", <<>>)}

ErrorValues == {Absent, None_, Str("503 Server Error: Service Unavailable")}

ShapeResponses ==
    {Dict(e, vr) : e \in ErrorValues,
                   vr \in ValidationResults(ShapeVerdicts, Addresses, Geocodes,
                                            UspsDatas, Metadatas)}
    \cup NonDicts

ConfirmResponses ==
    {Dict(Absent, vr) :
        vr \in ValidationResults(FullVerdicts,
                {[k |-> "absent", f |-> NoAddress]},
                {[k |-> "absent", f |-> NoGeocode]},
                {[k |-> "dict", f |-> [NoUsps EXCEPT !.dpvConfirmation = c]] :
                    c \in DpvCodes},
                {[k |-> "absent", f |-> NoMetadata]})}

RegionCodes == {"US", "CA"}
InputTexts == {"Harvard", "Harvard University"}

----------------------------------------------------------------------------
(* State of the parts that are not running *)

ParseIdle ==
    /\ result = NonDict("none", "None", <<>>)
    /\ original_address = ""
    /\ region_code = "US"
    /\ enable_usps_cass = TRUE
    /\ ret = NotCalled

BuildIdle ==
    /\ geocode_result = [address_components |-> <<>>, formatted_address |-> Absent]
    /\ original_input = ""
    /\ request = NoRequest

BatchIdle ==
    /\ df = <<>>
    /\ enable_cass = FALSE
    /\ results = <<>>
    /\ responses = <<>>

----------------------------------------------------------------------------
(* The classifier applied to one response *)

ParseStep ==
    /\ pc = "parse"
    /\ ret' = parse_validation_result(result, original_address, region_code,
                                      enable_usps_cass)
    /\ pc' = "parsed"
    /\ UNCHANGED <<result, original_address, region_code, enable_usps_cass>>
    /\ UNCHANGED <<buildVars, batchVars>>

InitParse ==
    /\ pc = "parse"
    /\ result \in ShapeResponses
    /\ original_address \in {"Harvard"}
    /\ region_code \in RegionCodes
    /\ enable_usps_cass = TRUE
    /\ ret = NotCalled
    /\ BuildIdle /\ BatchIdle

InitConfirm ==
    /\ pc = "parse"
    /\ result \in ConfirmResponses
    /\ original_address \in {"Harvard"}
    /\ region_code \in RegionCodes
    /\ enable_usps_cass \in BOOLEAN
    /\ ret = NotCalled
    /\ BuildIdle /\ BatchIdle

NextParse == ParseStep

SpecParse == InitParse /\ [][NextParse]_vars
SpecConfirm == InitConfirm /\ [][NextParse]_vars

----------------------------------------------------------------------------
(* Properties of the classifier *)

Parsed == pc = "parsed"
Returned == Parsed /\ ret.outcome = "return"
\* The record comes from the main classification path: only that path sets
\* dpv_confirmation_description.
MainPath == Returned /\ ret.rec.dpv_confirmation_description # Absent

InVerdict == result.result.f.verdict.f
InUsps == result.result.f.uspsData.f
InMetadata == result.result.f.metadata.f
InAddress == result.result.f.address.f

BoolKeys ==
    {"is_po_box", "is_dpv_confirmed", "is_confirmed", "is_vacant",
     "is_no_stat", "is_cmra", "is_undeliverable"}

\* C1: every returned record, on each of the three paths, is classified as
\* exactly one of valid / not valid and carries a non-empty status string.
C1_ClassifiedWithStatus ==
    Returned =>
        /\ ret.rec.is_valid \in {True_, False_}
        /\ ret.rec.validation_status.k = "str"
        /\ Len(ret.rec.validation_status.v) > 0

\* C1 witness: the response of a failed upstream call has been classified.
C1_Witness ==
    /\ Returned
    /\ result.error = Str("503 Server Error: Service Unavailable")
    /\ ret.rec.is_valid = False_
    /\ ret.rec.validation_status.v
        = "API Error: 503 Server Error: Service Unavailable"

\* C2: the classifier returns a record for every value of result and never
\* raises; a value that cannot be parsed gives the "Parse Error: " record
\* with validated_address = original_address.
C2_Total ==
    Parsed =>
        /\ ret.outcome = "return"
        /\ (result.k # "dict" =>
                /\ ret.rec.is_valid = False_
                /\ StartsWith(ret.rec.validation_status.v, "Parse Error: ")
                /\ ret.rec.validated_address = Str(original_address))

C5_Table(g) ==
    CASE g = Str("SUB_PREMISE") ->
            <<"Highly Mailable Address (Validated to sub-unit)", True_>>
      [] g = Str("PREMISE") ->
            <<"Standard Mailable Address (Validated to building)", True_>>
      [] g = Str("STREET") ->
            <<"Partial Address (Street-level only, may not be reliably mailable)", True_>>
      [] g = Str("LOCALITY") ->
            <<"Non-Mailable Address (Only city-level validated)", False_>>
      [] g = Str("REGION") ->
            <<"Non-Mailable Address (Only region/state validated)", False_>>
      [] g = Str("COUNTRY") ->
            <<"Non-Mailable Address (Only country validated)", False_>>
      [] g = Str("OTHER") ->
            <<"Non-Mailable Address (Unknown or unvalidated)", False_>>
      [] OTHER ->
            <<"Non-Mailable Address (Unknown validation granularity)", False_>>

\* C5: on the main path (validation_status, is_valid) is the table row of
\* the granularity (the UNKNOWN row when absent or unrecognized), the status
\* carrying the inferred note exactly when hasInferredComponents is true and
\* the granularity is SUB_PREMISE, PREMISE or STREET.
C5_StatusTable ==
    MainPath =>
        LET g == InVerdict.validationGranularity
            noted == /\ InVerdict.hasInferredComponents = True_
                     /\ g \in {Str("SUB_PREMISE"), Str("PREMISE"), Str("STREET")}
        IN  /\ ret.rec.is_valid = C5_Table(g)[2]
            /\ ret.rec.validation_status.v
                = IF noted
                  THEN C5_Table(g)[1] \o " -- Note: Some components were inferred."
                  ELSE C5_Table(g)[1]

\* C5 witness: a LOCALITY verdict with inferred components was classified
\* and its status carries no note.
C5_Witness ==
    /\ MainPath
    /\ InVerdict.validationGranularity = Str("LOCALITY")
    /\ InVerdict.hasInferredComponents = True_
    /\ ret.rec.validation_status.v
        = "Non-Mailable Address (Only city-level validated)"

\* C6: outside the US is_po_box and is_dpv_confirmed are false whatever the
\* payload says; in the US is_po_box is metadata.poBox (false if absent) and
\* is_dpv_confirmed is true exactly when dpvConfirmation is "Y".
C6_RegionGate ==
    MainPath =>
        /\ region_code # "US" =>
                /\ ret.rec.is_po_box = False_
                /\ ret.rec.is_dpv_confirmed = False_
        /\ region_code = "US" =>
                /\ ret.rec.is_po_box
                    = (IF InMetadata.poBox = Absent THEN False_
                       ELSE InMetadata.poBox)
                /\ ret.rec.is_dpv_confirmed
                    = PyBool(InUsps.dpvConfirmation = Str("Y"))

\* C6 witness: a non-US record whose payload says PO box and DPV "Y".
C6_Witness ==
    /\ MainPath
    /\ region_code = "CA"
    /\ InMetadata.poBox = True_
    /\ InUsps.dpvConfirmation = Str("Y")
    /\ ret.rec.is_po_box = False_
    /\ ret.rec.is_dpv_confirmed = False_

\* C8: a response object with a top-level "error" key gives is_valid false,
\* status "API Error: <message>", validated_address = original_address, all
\* boolean flags false or unset, and nothing of the classification.
C8_ApiError ==
    (Parsed /\ result.k = "dict" /\ result.error # Absent) =>
        /\ ret.outcome = "return"
        /\ ret.rec.is_valid = False_
        /\ ret.rec.validation_status = Str("API Error: " \o result.error.v)
        /\ ret.rec.validated_address = Str(original_address)
        /\ \A key \in BoolKeys : ret.rec[key] \in {Absent, False_}
        /\ ret.rec.dpv_confirmation_description = Absent

\* C8 witness: an error response that also carries a full PREMISE verdict.
C8_Witness ==
    /\ Returned
    /\ result.error # Absent
    /\ result.result.k = "dict"
    /\ InVerdict.validationGranularity = Str("PREMISE")
    /\ InUsps.dpvConfirmation = Str("Y")
    /\ ret.rec.is_valid = False_

\* C9: with a non-empty original_address, validated_address is never empty:
\* the response's formattedAddress when it has one, else the original text
\* (also when formattedAddress is present but empty or null).
C9_ValidatedNeverEmpty ==
    (Returned /\ original_address # "") =>
        /\ ret.rec.validated_address.k = "str"
        /\ ret.rec.validated_address.v # ""
        /\ MainPath =>
             ret.rec.validated_address
                = (IF InAddress.formattedAddress.k = "str"
                      /\ InAddress.formattedAddress.v # ""
                   THEN InAddress.formattedAddress
                   ELSE Str(original_address))

\* C4: on the main path is_confirmed is the boolean true when all seven
\* verdict conditions hold (and dpvConfirmation is "Y" when the region is US
\* and CASS is enabled), and the boolean false when any of them fails,
\* an absent field counting as failing.
C4_ConfirmedIff ==
    MainPath =>
        LET v == InVerdict
            all == /\ v.validationGranularity \in {Str("PREMISE"), Str("SUB_PREMISE")}
                   /\ v.addressComplete = True_
                   /\ v.hasInferredComponents \in {Absent, False_}
                   /\ v.hasReplacedComponents \in {Absent, False_}
                   /\ v.unconfirmedComponentTypes \in {Absent, List("[]")}
                   /\ v.missingComponentTypes \in {Absent, List("[]")}
                   /\ v.unresolvedTokens \in {Absent, List("[]")}
                   /\ (region_code = "US" /\ enable_usps_cass)
                        => InUsps.dpvConfirmation = Str("Y")
        IN  ret.rec.is_confirmed = PyBool(all)

----------------------------------------------------------------------------
(* The request builder applied to one geocode result *)

MaxComponents == 3

AddressComponents ==
    {[long_name |-> "Harvard University", short_name |-> "Harvard University",
      types |-> {"university", "establishment", "point_of_interest"}],
     [long_name |-> "Harvard", short_name |-> "Harvard",
      types |-> {"establishment", "locality"}],
     [long_name |-> "Cambridge", short_name |-> "Cambridge",
      types |-> {"locality", "political"}],
     [long_name |-> "Massachusetts", short_name |-> "MA",
      types |-> {"administrative_area_level_1", "political"}],
     [long_name |-> "Canada", short_name |-> "CA",
      types |-> {"country", "political"}],
     [long_name |-> "02138", short_name |-> "02138",
      types |-> {"postal_code"}]}

ComponentLists ==
    UNION {[1..n -> AddressComponents] : n \in 0..MaxComponents}

FormattedAddresses ==
    {Absent, Str("Cambridge, MA 02138"), Str("Harvard University")}

GeocodeResults ==
    {[address_components |-> cs, formatted_address |-> fa] :
        cs \in ComponentLists, fa \in FormattedAddresses}

BuildStep ==
    /\ pc = "build"
    /\ request' = build_validation_request(geocode_result, original_input)
    /\ pc' = "built"
    /\ UNCHANGED <<geocode_result, original_input>>
    /\ UNCHANGED <<parseVars, batchVars>>

InitBuild ==
    /\ pc = "build"
    /\ geocode_result \in GeocodeResults
    /\ original_input \in InputTexts
    /\ request = NoRequest
    /\ ParseIdle /\ BatchIdle

NextBuild == BuildStep

SpecBuild == InitBuild /\ [][NextBuild]_vars

Built == pc = "built"

NoDuplicates(seq) ==
    \A i, j \in 1..Len(seq) : seq[i] = seq[j] => i = j

Formatted == IF geocode_result.formatted_address = Absent THEN ""
             ELSE geocode_result.formatted_address.v

\* The names of the point-of-interest components, first occurrences only
POIs ==
    LET cs == geocode_result.address_components
        first(i) == /\ cs[i].types \cap PoiTypes # {}
                    /\ \A j \in 1..(i - 1) : cs[j].long_name # cs[i].long_name
        RECURSIVE upto(_)
        upto(n) == IF n = 0 THEN <<>>
                   ELSE IF first(n) THEN Append(upto(n - 1), cs[n].long_name)
                   ELSE upto(n - 1)
    IN  upto(Len(cs))

Unless(x, seq) == IF InSeq(x, seq) THEN <<>> ELSE <<x>>

\* C7 as stated: addressLines is the point-of-interest names, then the
\* original input unless it is one of them, then the formatted address
\* unless already present; no string occurs twice.
C7_PoiThenOriginal ==
    Built =>
        LET named == POIs \o Unless(original_input, POIs)
        IN  /\ request.addressLines = named \o Unless(Formatted, named)
            /\ NoDuplicates(request.addressLines)

\* C7 amended: addressLines is the original input unless it is one of the
\* point-of-interest names, then those names in the order encountered with
\* repeats removed, then the formatted address (the empty string when the
\* geocoder gave none) unless already present; no string occurs twice.
C7_OriginalThenPoi ==
    Built =>
        LET named == Unless(original_input, POIs) \o POIs
        IN  /\ request.addressLines = named \o Unless(Formatted, named)
            /\ NoDuplicates(request.addressLines)

\* C7 witness: the Harvard example has been built.
C7_Witness ==
    /\ Built
    /\ POIs = <<"Harvard University">>
    /\ original_input = "Harvard"
    /\ Formatted = "Cambridge, MA 02138"
    /\ request.addressLines
        = <<"Harvard", "Harvard University", "Cambridge, MA 02138">>

----------------------------------------------------------------------------
(* process_addresses: one action per loop iteration, by the outcome of the *)
(* outbound calls validate_address_google makes for the row                *)

MaxRows == 2

Rows == UNION {[1..n -> InputTexts] : n \in 0..MaxRows}

\* The geocoder's first result for a row that geocodes
RowGeocodes ==
    {[address_components |->
        <<[long_name |-> "Harvard University",
           short_name |-> "Harvard University",
           types |-> {"university", "establishment", "point_of_interest"}]>>,
      formatted_address |-> Str("Cambridge, MA 02138")]}

PremiseVerdict ==
    [k |-> "dict",
     f |-> [NoVerdict EXCEPT !.validationGranularity = Str("PREMISE"),
                             !.addressComplete = True_,
                             !.hasInferredComponents = False_,
                             !.hasReplacedComponents = False_]]

\* What the validation service can answer with status 200
RowResponses ==
    {Dict(Absent,
          [k |-> "dict",
           f |-> [NoValidationResult EXCEPT
                    !.verdict = PremiseVerdict,
                    !.uspsData = [k |-> "dict",
                                  f |-> [NoUsps EXCEPT !.dpvConfirmation = c]]]]) :
        c \in DpvCodes}
    \cup {Dict(Absent,
               [k |-> "dict",
                f |-> [NoValidationResult EXCEPT
                         !.verdict =
                            [k |-> "dict",
                             f |-> [NoVerdict EXCEPT
                                      !.validationGranularity = Str("LOCALITY")]]]]),
          Dict(Absent, [k |-> "list", f |-> NoValidationResult]),
          NonDict("none", "None", <<>>)}

Address == df[Len(results) + 1]

InLoop == pc = "loop" /\ Len(results) < Len(df)

\* lines 258-263 after validate_address_google returned validation_result:
\* the classifier is called with its default region_code and
\* enable_usps_cass
Classify(validation_result) ==
    LET parsed == parse_validation_result(validation_result, Address, "US", TRUE)
    IN  /\ ret' = parsed
        /\ responses' = Append(responses, validation_result)
        /\ IF parsed.outcome = "raise"
           THEN pc' = "raised" /\ UNCHANGED results
           ELSE pc' = "loop" /\ results' = Append(results, parsed.rec)

\* geocode_address raises ValueError: the geocoder found nothing
RowGeocodeEmpty ==
    /\ InLoop
    /\ pc' = "raised"
    /\ ret' = Raise("ValueError: No results found for address")
    /\ UNCHANGED <<result, original_address, region_code, enable_usps_cass>>
    /\ UNCHANGED <<buildVars, batchVars>>

\* geocode_address raises from requests.get or raise_for_status
RowGeocodeFails ==
    /\ InLoop
    /\ pc' = "raised"
    /\ ret' = Raise("HTTPError: 503 Server Error: Service Unavailable")
    /\ UNCHANGED <<result, original_address, region_code, enable_usps_cass>>
    /\ UNCHANGED <<buildVars, batchVars>>

\* requests.post or raise_for_status raises: the error wrapper is classified
RowValidatorFails ==
    /\ InLoop
    /\ \E g \in RowGeocodes :
        /\ geocode_result' = g
        /\ original_input' = Address
        /\ request' = build_validation_request(g, Address)
    /\ Classify(Dict(Str("503 Server Error: Service Unavailable"),
                     [k |-> "absent", f |-> NoValidationResult]))
    /\ UNCHANGED <<result, original_address, region_code, enable_usps_cass>>
    /\ UNCHANGED <<df, enable_cass>>

\* the validation service answers: its JSON is classified
RowValidatorResponds ==
    /\ InLoop
    /\ \E g \in RowGeocodes :
        /\ geocode_result' = g
        /\ original_input' = Address
        /\ request' = build_validation_request(g, Address)
    /\ \E r \in RowResponses : Classify(r)
    /\ UNCHANGED <<result, original_address, region_code, enable_usps_cass>>
    /\ UNCHANGED <<df, enable_cass>>

\* the loop is over: the results are returned as a table
Finish ==
    /\ pc = "loop"
    /\ Len(results) = Len(df)
    /\ pc' = "done"
    /\ UNCHANGED <<parseVars, buildVars, batchVars>>

Init ==
    /\ pc = "loop"
    /\ df \in Rows
    /\ enable_cass \in BOOLEAN
    /\ results = <<>>
    /\ responses = <<>>
    /\ ParseIdle /\ BuildIdle

Next ==
    \/ RowGeocodeEmpty
    \/ RowGeocodeFails
    \/ RowValidatorFails
    \/ RowValidatorResponds
    \/ Finish

Spec == Init /\ [][Next]_vars

\* C3: no failure of a row is fatal to the batch: whatever the outbound
\* calls do, the loop goes on and ends with one result row per input row, in
\* input order, a failing row being recorded as not valid.
C3_BatchSurvives ==
    /\ pc # "raised"
    /\ pc = "done" =>
        /\ Len(results) = Len(df)
        /\ \A i \in 1..Len(df) :
            /\ results[i].original_address = Str(df[i])
            /\ (responses[i].k # "dict" \/ responses[i].error # Absent
                    \/ responses[i].result.k \notin {"dict", "absent"})
                => results[i].is_valid = False_

\* C10: the caller's enable_cass is the enable_usps_cass the classifier
\* uses: in a batch run with enable_cass false, a US row whose verdict meets
\* the seven non-DPV conditions is confirmed whatever dpvConfirmation is; in
\* a batch run with enable_cass true it is confirmed only with "Y".
C10_CallerControlsCass ==
    \A i \in 1..Len(results) :
        (/\ responses[i].k = "dict"
         /\ responses[i].error = Absent
         /\ responses[i].result.k = "dict"
         /\ responses[i].result.f.verdict = PremiseVerdict)
        => results[i].is_confirmed
            = PyBool(enable_cass =>
                responses[i].result.f.uspsData.f.dpvConfirmation = Str("Y"))

====
